---------------------------- MODULE Spec2Model ----------------------------
(***************************************************************************)
(* A model of the configuration-to-PDF pipeline: processor.py (text        *)
(* sanitization, normalizer call with local fallback, table layout, table  *)
(* parser, batch loop), processor_template.py (overlay layout) and         *)
(* create_template.py (background template).                               *)
(*                                                                         *)
(* A Python string is a sequence of characters, each character a one-      *)
(* character string; a character outside ASCII is written as a name in     *)
(* angle brackets ("<TM>", "<EMDASH>", "<EACUTE>", ...).  Python's None is *)
(* the value None below, which is no string of the model.                  *)
(***************************************************************************)
EXTENDS Integers, Sequences, FiniteSets, TLC

VARIABLES
    \* ---- parse_product_blocks (processor.py) ----
    content,          \* the raw lines of the input read so far (indices into InputLines)
    products,         \* the list of emitted blocks
    current_product,  \* name of the open block, or None
    current_specs,    \* specification pairs of the open block
    current_price,    \* the running price, or None
    parse_pc,         \* "idle", "scan" (inside the for loop), "returned"
    opened,           \* history: did the row processed last open a block
    finalized_at,     \* history: for each emitted block, Len(content) when it was appended
    \* ---- determine_spec_type (processor.py) ----
    value,            \* the argument
    spec_type,        \* the label returned, None before the call
    \* ---- clean_text_for_pdf (processor.py) ----
    text,             \* the argument
    cleaned_text,     \* clean_text_for_pdf(text), None before the call
    cleaned_again,    \* clean_text_for_pdf(cleaned_text), None before the call
    \* ---- main, process_with_gpt, create_specification_table ----
    path,             \* "plain" (processor.py) or "overlay" (processor_template.py)
    batch,            \* main: products, as parse_product_blocks returned them
    product_i,        \* main: i, the index of the product in work
    main_pc,          \* "idle", "start", "normalize", "title", "rows", "write", "done", "aborted", "empty"
    response,         \* process_with_gpt: what the API call did
    structured_data,  \* the record process_with_gpt returned
    y,                \* the canvas's vertical cursor
    row,              \* create_specification_table: index of the next main_specs entry
    is_dark_row,      \* create_specification_table: shade of the next row
    rects,            \* the rows drawn on the page in work
    output_dir,       \* the files written: a set of [file, doc]
    fell_back,        \* history: the products whose normalizer call failed
    log,              \* the logger.error records, oldest first
    written,          \* history: the products whose document was saved, in order
    \* ---- create_templated_pdf (processor_template.py), one call per task ----
    mode,             \* "sequential": one call after the other; "concurrent": interleaved
    task_pc,          \* per task: the line the call is at, "returned" or "raised"
    temp_content,     \* per task: is the local name temp_content bound (line 117)
    temp_file,        \* the file temp_content.pdf: [exists, page, writers]
    seen,             \* per task: the staging file as line 122 found it
    content_page,     \* per task: the page content_reader holds (0: none)
    writer,           \* per task: the content page merged into the writer (0: none)
    error,            \* per task: the exception in flight, "none" without one
    failed_step       \* history, per task: the first step that raised

parse_vars == <<content, products, current_product, current_specs,
                current_price, parse_pc, opened, finalized_at>>

classify_vars == <<value, spec_type>>

clean_vars == <<text, cleaned_text, cleaned_again>>

main_vars == <<path, batch, product_i, main_pc, response, structured_data, y, row,
               is_dark_row, rects, output_dir, fell_back, log, written>>

stage_vars == <<mode, task_pc, temp_content, temp_file, seen, content_page, writer, error,
                failed_step>>

vars == <<parse_vars, classify_vars, clean_vars, main_vars, stage_vars>>

-----------------------------------------------------------------------------
(* Bounds of the model                                                     *)

MaxLines == 5

MaxFragments == 3

MaxPieces == 4

MaxProducts == 2

MaxReply == 2

MaxWidthSteps == 4

MaxTasks == 2

LongWidth == 1800

WidthStep == 60

-----------------------------------------------------------------------------
(* Python values and str methods, on sequences of characters               *)

None == <<"<None>">>

Whitespace == {" ", "\t", "\n", "\r", "\f", "<NBSP>"}

UpperCase == <<"A", "B", "C", "D", "E", "F", "G", "H", "I", "J", "K", "L", "M",
               "N", "O", "P", "Q", "R", "S", "T", "U", "V", "W", "X", "Y", "Z">>

LowerCase == <<"a", "b", "c", "d", "e", "f", "g", "h", "i", "j", "k", "l", "m",
               "n", "o", "p", "q", "r", "s", "t", "u", "v", "w", "x", "y", "z">>

lower_char(c) ==
    IF \E i \in DOMAIN UpperCase : UpperCase[i] = c
    THEN LowerCase[CHOOSE i \in DOMAIN UpperCase : UpperCase[i] = c]
    ELSE c

\* str.lower()
lower(s) == [i \in DOMAIN s |-> lower_char(s[i])]

RECURSIVE lstrip(_)
lstrip(s) ==
    IF s # <<>> /\ Head(s) \in Whitespace THEN lstrip(Tail(s)) ELSE s

RECURSIVE rstrip(_)
rstrip(s) ==
    IF s # <<>> /\ s[Len(s)] \in Whitespace
    THEN rstrip(SubSeq(s, 1, Len(s) - 1))
    ELSE s

\* str.strip()
strip(s) == rstrip(lstrip(s))

\* str.startswith(prefix)
startswith(s, prefix) ==
    Len(s) >= Len(prefix) /\ SubSeq(s, 1, Len(prefix)) = prefix

\* sub in s
contains(s, sub) ==
    \E i \in 1..(Len(s) - Len(sub) + 1) : SubSeq(s, i, i + Len(sub) - 1) = sub

\* str.split(sep) for a one-character separator
RECURSIVE split(_, _)
split(s, sep) ==
    IF \E i \in DOMAIN s : s[i] = sep
    THEN LET i == CHOOSE i \in DOMAIN s :
                      s[i] = sep /\ \A j \in 1..(i - 1) : s[j] # sep
         IN  <<SubSeq(s, 1, i - 1)>> \o split(SubSeq(s, i + 1, Len(s)), sep)
    ELSE <<s>>

\* str.replace(old, new), old not empty: leftmost non-overlapping occurrences
RECURSIVE replace(_, _, _)
replace(s, old, new) ==
    IF s = <<>> THEN <<>>
    ELSE IF startswith(s, old)
         THEN new \o replace(SubSeq(s, Len(old) + 1, Len(s)), old, new)
         ELSE <<Head(s)>> \o replace(Tail(s), old, new)

\* Python truthiness of an optional string
truthy(v) == v # None /\ v # <<>>

\* A structured record: a dict with the keys named in keys
record(title, price, main_specs, upgrade_options) ==
    [keys |-> {"title", "price", "main_specs", "upgrade_options"},
     title |-> title, price |-> price, main_specs |-> main_specs,
     upgrade_options |-> upgrade_options]

\* The JSON object {}: a dict with no keys
EmptyObject ==
    [keys |-> {}, title |-> <<>>, price |-> <<>>, main_specs |-> <<>>,
     upgrade_options |-> <<>>]

\* No record yet
Unassigned ==
    [keys |-> {}, title |-> None, price |-> None, main_specs |-> <<>>,
     upgrade_options |-> <<>>]

\* Outside the call
NoResponse ==
    [called |-> FALSE, raised |-> FALSE, reply |-> <<>>, parsed |-> FALSE,
     loaded |-> Unassigned]

-----------------------------------------------------------------------------
(* Text sanitization: clean_text_for_pdf                                   *)

\* The characters outside ASCII that the model writes
NonAscii == {"<TM>", "<R>", "<C>", "<ENDASH>", "<EMDASH>", "<ELLIPSIS>",
             "<LSQUO>", "<RSQUO>", "<LDQUO>", "<RDQUO>", "<EACUTE>", "<NBSP>"}

\* lines 35-54: the replacement table in the order the dict iterates it.  The
\* two entries of lines 40-41 map the double quote to itself; lines 42-43 are
\* one entry, whose key is the text between the two triple quotes of the source.
replacements ==
  <<
    << <<"<TM>">>, <<"(", "T", "M", ")">> >>,
    << <<"<R>">>, <<"(", "R", ")">> >>,
    << <<"<C>">>, <<"(", "C", ")">> >>,
    << <<"<ENDASH>">>, <<"-">> >>,
    << <<"\"">>, <<"\"">> >>,
    << <<":", " ", "\"", "'", "\"", ",", "\n", " ", " ", " ", " ", " ", " ", " ", " ">>,
       <<"'">> >>,
    << <<"<ELLIPSIS>">>, <<".", ".", ".">> >>,
    << <<"<EMDASH>">>, <<"-", "-">> >>,
    << <<"<LSQUO>">>, <<"'">> >>,
    << <<"<RSQUO>">>, <<"'">> >>,
    << <<"<LDQUO>">>, <<"\"">> >>,
    << <<"<RDQUO>">>, <<"\"">> >>
  >>

\* lines 57-58
RECURSIVE replace_known(_, _)
replace_known(s, k) ==
    IF k > Len(replacements) THEN s
    ELSE replace_known(replace(s, replacements[k][1], replacements[k][2]), k + 1)

\* line 61
blank_non_ascii(s) == [i \in DOMAIN s |-> IF s[i] \in NonAscii THEN " " ELSE s[i]]

\* str.split() with no argument: the maximal runs of non-whitespace characters
RECURSIVE split_whitespace(_)
split_whitespace(s) ==
    LET t == lstrip(s)
    IN  IF t = <<>> THEN <<>>
        ELSE LET ws  == {i \in DOMAIN t : t[i] \in Whitespace}
                 end == IF ws = {} THEN Len(t) + 1
                        ELSE CHOOSE i \in ws : \A j \in ws : i <= j
             IN  <<SubSeq(t, 1, end - 1)>> \o split_whitespace(SubSeq(t, end, Len(t)))

\* ' '.join(words)
RECURSIVE join_spaces(_)
join_spaces(words) ==
    IF words = <<>> THEN <<>>
    ELSE IF Len(words) = 1 THEN words[1]
         ELSE words[1] \o <<" ">> \o join_spaces(Tail(words))

clean_text_collapse_first(t) ==
    blank_non_ascii(join_spaces(split_whitespace(replace_known(t, 1))))

\* lines 32-66
clean_text_for_pdf(t) ==
    join_spaces(split_whitespace(blank_non_ascii(replace_known(t, 1))))

\* The pieces the argument texts are put together from
TextPieces ==
  <<
    <<"a">>,
    <<" ">>,
    <<"\n">>,
    <<"<TM>">>,
    <<"<EMDASH>">>,
    <<"<EACUTE>">>,
    <<"<RDQUO>">>,
    <<":", " ", "\"", "'", "\"", ",", "\n", " ", " ", " ", " ", " ", " ", " ", " ">>
  >>

RECURSIVE concat(_, _)
concat(table, ids) ==
    IF ids = <<>> THEN <<>> ELSE table[Head(ids)] \o concat(table, Tail(ids))

id_seqs(n, max) == UNION {[1..k -> 1..n] : k \in 0..max}

ParseIdle ==
    /\ content = <<>>
    /\ products = <<>>
    /\ current_product = None
    /\ current_specs = <<>>
    /\ current_price = None
    /\ parse_pc = "idle"
    /\ opened = FALSE
    /\ finalized_at = <<>>

ClassifyIdle == value = <<>> /\ spec_type = None

CleanIdle == text = <<>> /\ cleaned_text = None /\ cleaned_again = None

MainIdle ==
    /\ path = "plain"
    /\ batch = <<>>
    /\ product_i = 0
    /\ main_pc = "idle"
    /\ response = NoResponse
    /\ structured_data = Unassigned
    /\ y = 0
    /\ row = 0
    /\ is_dark_row = TRUE
    /\ rects = <<>>
    /\ output_dir = {}
    /\ fell_back = {}
    /\ log = <<>>
    /\ written = <<>>

\* the file temp_content.pdf is not there
NoFile == [exists |-> FALSE, page |-> 0, writers |-> {}]

StageIdle ==
    /\ mode = "sequential"
    /\ task_pc = <<>>
    /\ temp_content = <<>>
    /\ temp_file = NoFile
    /\ seen = <<>>
    /\ content_page = <<>>
    /\ writer = <<>>
    /\ error = <<>>
    /\ failed_step = <<>>

CleanInit ==
    /\ \E ids \in id_seqs(Len(TextPieces), MaxPieces) : text = concat(TextPieces, ids)
    /\ cleaned_text = None
    /\ cleaned_again = None
    /\ ParseIdle /\ ClassifyIdle /\ MainIdle /\ StageIdle

\* A first call
Clean ==
    /\ cleaned_text = None
    /\ cleaned_text' = clean_text_for_pdf(text)
    /\ UNCHANGED <<text, cleaned_again, parse_vars, classify_vars, main_vars, stage_vars>>

\* A second call, on the result of the first
CleanAgain ==
    /\ cleaned_text # None
    /\ cleaned_again = None
    /\ cleaned_again' = clean_text_for_pdf(cleaned_text)
    /\ UNCHANGED <<text, cleaned_text, parse_vars, classify_vars, main_vars, stage_vars>>

CleanNext == Clean \/ CleanAgain

SpecClean == CleanInit /\ [][CleanNext]_vars

-----------------------------------------------------------------------------
(* Spec Classifier: determine_spec_type and its keyword table              *)

\* The ordered table category -> keywords (a dict, iterated in insertion order)
spec_labels ==
  <<
    [label |-> <<"P", "r", "o", "c", "e", "s", "s", "o", "r">>,
     keywords |-> <<<<"p", "r", "o", "c", "e", "s", "s", "o", "r">>,
                   <<"i", "n", "t", "e", "l">>,
                   <<"a", "m", "d">>,
                   <<"c", "o", "r", "e">>,
                   <<"c", "e", "l", "e", "r", "o", "n">>,
                   <<"x", "e", "o", "n">>>>],
    [label |-> <<"M", "e", "m", "o", "r", "y">>,
     keywords |-> <<<<"m", "e", "m", "o", "r", "y">>,
                   <<"g", "b", ":">>,
                   <<"r", "a", "m">>,
                   <<"r", "d", "i", "m", "m">>,
                   <<"d", "d", "r">>>>],
    [label |-> <<"S", "t", "o", "r", "a", "g", "e">>,
     keywords |-> <<<<"s", "t", "o", "r", "a", "g", "e">>,
                   <<"s", "s", "d">>,
                   <<"h", "d", "d">>,
                   <<"e", "m", "m", "c">>,
                   <<"h", "a", "r", "d", " ", "d", "r", "i", "v", "e">>,
                   <<"n", "v", "m", "e">>>>],
    [label |-> <<"D", "i", "s", "p", "l", "a", "y">>,
     keywords |-> <<<<"d", "i", "s", "p", "l", "a", "y">>,
                   <<"s", "c", "r", "e", "e", "n">>,
                   <<"l", "c", "d">>,
                   <<"\"">>,
                   <<"f", "h", "d">>,
                   <<"h", "d">>,
                   <<"m", "o", "n", "i", "t", "o", "r">>>>],
    [label |-> <<"G", "r", "a", "p", "h", "i", "c", "s">>,
     keywords |-> <<<<"g", "r", "a", "p", "h", "i", "c", "s">>,
                   <<"g", "p", "u">>,
                   <<"r", "a", "d", "e", "o", "n">>,
                   <<"n", "v", "i", "d", "i", "a">>,
                   <<"i", "n", "t", "e", "l", "<R>", " ", "u", "h", "d">>>>],
    [label |-> <<"P", "o", "w", "e", "r">>,
     keywords |-> <<<<"a", "d", "a", "p", "t", "e", "r">>,
                   <<"b", "a", "t", "t", "e", "r", "y">>,
                   <<"c", "e", "l", "l">>,
                   <<"w", "h">>,
                   <<"e", "x", "p", "r", "e", "s", "s", "c", "h", "a", "r", "g", "e">>>>],
    [label |-> <<"W", "i", "r", "e", "l", "e", "s", "s">>,
     keywords |-> <<<<"w", "i", "r", "e", "l", "e", "s", "s">>,
                   <<"w", "i", "-", "f", "i">>,
                   <<"b", "l", "u", "e", "t", "o", "o", "t", "h">>,
                   <<"a", "x", "2", "0", "1">>,
                   <<"a", "x", "2", "1", "1">>>>],
    [label |-> <<"O", "p", "e", "r", "a", "t", "i", "n", "g", " ", "S", "y", "s", "t", "e", "m">>,
     keywords |-> <<<<"w", "i", "n", "d", "o", "w", "s">>,
                   <<"c", "h", "r", "o", "m", "e">>>>],
    [label |-> <<"W", "a", "r", "r", "a", "n", "t", "y">>,
     keywords |-> <<<<"w", "a", "r", "r", "a", "n", "t", "y">>,
                   <<"s", "e", "r", "v", "i", "c", "e">>,
                   <<"s", "u", "p", "p", "o", "r", "t">>>>]
  >>

Other == <<"O", "t", "h", "e", "r">>

RECURSIVE first_label(_, _)
first_label(value_lower, k) ==
    IF k > Len(spec_labels) THEN Other
    ELSE IF \E j \in DOMAIN spec_labels[k].keywords :
               contains(value_lower, spec_labels[k].keywords[j])
         THEN spec_labels[k].label
         ELSE first_label(value_lower, k + 1)

determine_spec_type_no_lower(v) == first_label(v, 1)

\* lines 283-289
determine_spec_type(v) == first_label(lower(v), 1)

\* The pieces the argument values are put together from
ValuePieces ==
  <<
    <<"R", "A", "M">>,
    <<"s", "u", "p", "p", "o", "r", "t">>,
    <<"I", "n", "t", "e", "l">>,
    <<"<R>", " ", "U", "H", "D">>,
    <<"h">>,
    <<"d">>,
    <<"1", "5", "\"", " ">>,
    <<"x">>,
    <<"W", "i", "n", "d", "o", "w", "s">>
  >>

ClassifyInit ==
    /\ \E ids \in id_seqs(Len(ValuePieces), MaxFragments) : value = concat(ValuePieces, ids)
    /\ spec_type = None
    /\ ParseIdle /\ CleanIdle /\ MainIdle /\ StageIdle

Classify ==
    /\ spec_type = None
    /\ spec_type' = determine_spec_type(value)
    /\ UNCHANGED <<value, parse_vars, clean_vars, main_vars, stage_vars>>

ClassifyNext == Classify

SpecClassify == ClassifyInit /\ [][ClassifyNext]_vars

-----------------------------------------------------------------------------
(* Table Parser: parse_product_blocks                                      *)

\* The raw lines an input text is made of: Scenario A's three rows, a marker
\* row spelled 'Base configuration' that carries a price, a row spelled
\* 'base configuration', a NaN row holding the phrase, a separator row and a
\* line that is no table row.
InputLines ==
  <<
    <<"|", " ", "M", "o", "d", "e", "l", " ", "X", " ", "B", "a", "s", "e", " ", "C", "o", "n", "f", "i", "g", "u", "r", "a", "t", "i", "o", "n", " ", "|", " ", "|">>,
    <<"|", " ", "N", "a", "N", " ", "|", " ", "I", "n", "t", "e", "l", " ", "C", "o", "r", "e", " ", "i", "7", " ", "p", "r", "o", "c", "e", "s", "s", "o", "r", " ", "|">>,
    <<"|", " ", "N", "a", "N", " ", "|", " ", "$", "9", "9", "9", " ", "|">>,
    <<"|", " ", "B", " ", "B", "a", "s", "e", " ", "c", "o", "n", "f", "i", "g", "u", "r", "a", "t", "i", "o", "n", " ", "|", " ", "$", "1", ",", "2", "9", "9", " ", "|">>,
    <<"|", " ", "c", " ", "b", "a", "s", "e", " ", "c", "o", "n", "f", "i", "g", "u", "r", "a", "t", "i", "o", "n", " ", "|", " ", "8", " ", "G", "B", " ", "|">>,
    <<"|", " ", "N", "a", "N", " ", "|", " ", "B", "a", "s", "e", " ", "C", "o", "n", "f", "i", "g", "u", "r", "a", "t", "i", "o", "n", " ", "|">>,
    <<"|", "-", "-", "-", "|", "-", "-", "-", "|">>,
    <<"$", "5", "0", "0">>
  >>

NaN == <<"N", "a", "N">>

BaseConfiguration == <<"B", "a", "s", "e", " ", "C", "o", "n", "f", "i", "g", "u", "r", "a", "t", "i", "o", "n">>

Baseconfiguration == <<"B", "a", "s", "e", " ", "c", "o", "n", "f", "i", "g", "u", "r", "a", "t", "i", "o", "n">>

\* line 292: the rows the loop does not skip
is_table_row(line) ==
    /\ contains(line, <<"|">>)
    /\ ~ (\A i \in DOMAIN line : line[i] \in {"|", "-"})

\* line 295: the stripped, non-empty cells of a row
cells_of(line) ==
    LET parts == split(line, "|")
    IN  SelectSeq([i \in DOMAIN parts |-> strip(parts[i])], LAMBDA c : c # <<>>)

\* line 300: the first cell that starts with '$', or None
price_cell_of(cells) ==
    IF \E i \in DOMAIN cells : startswith(cells[i], <<"$">>)
    THEN cells[CHOOSE i \in DOMAIN cells :
                   /\ startswith(cells[i], <<"$">>)
                   /\ \A j \in 1..(i - 1) : ~ startswith(cells[j], <<"$">>)]
    ELSE None

\* line 302
price_of(price_cell) == replace(replace(price_cell, <<"$">>, <<>>), <<",">>, <<>>)

is_new_product_any_first_cell(cells, line) ==
    contains(line, BaseConfiguration) \/ contains(line, Baseconfiguration)

\* line 305: the product-start test
is_new_product(cells, line) ==
    /\ cells[1] # NaN
    /\ (contains(line, BaseConfiguration) \/ contains(line, Baseconfiguration))

\* lines 317-325: the pair a specification row appends, <<>> when it appends none
spec_pair_of(cells) ==
    IF Len(cells) >= 2
    THEN IF cells[1] = NaN
         THEN <<determine_spec_type(cells[2]), cells[2]>>
         ELSE <<cells[1], cells[2]>>
    ELSE <<>>

\* What the loop reads off one raw line (lines 268, 292-305), once per line
scan_line(raw) ==
    LET line  == strip(raw)
        table == line # <<>> /\ is_table_row(line)
        cells == IF table THEN cells_of(line) ELSE <<>>
        live  == table /\ cells # <<>>
    IN  [line       |-> line,
         cells      |-> cells,
         live       |-> live,
         price_cell |-> IF live THEN price_cell_of(cells) ELSE None,
         marker     |-> live /\ is_new_product(cells, line),
         pair       |-> IF live THEN spec_pair_of(cells) ELSE <<>>]

Scanned == [i \in DOMAIN InputLines |-> scan_line(InputLines[i])]

\* lines 300-302: the running price after a row; nothing else assigns it
running_price_reset(r, price) ==
    IF r.price_cell # None THEN price_of(r.price_cell)
    ELSE IF r.marker THEN None ELSE price

running_price(r, price) ==
    IF r.price_cell # None THEN price_of(r.price_cell) ELSE price

block(name, price, specs) ==
    [name |-> name, price |-> price, specifications |-> specs]

emit_ok_without_specs(product, specs) == truthy(product)

\* lines 306-311 and 328-333: emit the open block when it has a name and specifications
emit_ok(product, specs) == truthy(product) /\ specs # <<>>

ParseInit ==
    /\ content = <<>>
    /\ products = <<>>
    /\ current_product = None
    /\ current_specs = <<>>
    /\ current_price = None
    /\ parse_pc = "scan"
    /\ opened = FALSE
    /\ finalized_at = <<>>
    /\ ClassifyIdle /\ CleanIdle /\ MainIdle /\ StageIdle

\* One iteration of the for loop (lines 291-325) on the next raw line
ParseLine(k) ==
    LET r     == Scanned[k]
        price == running_price(r, current_price)
        emit  == r.marker /\ emit_ok(current_product, current_specs)
    IN  /\ parse_pc = "scan"
        /\ Len(content) < MaxLines
        /\ content' = Append(content, k)
        /\ current_price' = price
        /\ opened' = r.marker
        /\ products' = IF emit
                       THEN Append(products, block(current_product, price, current_specs))
                       ELSE products
        /\ finalized_at' = IF emit THEN Append(finalized_at, Len(content) + 1)
                           ELSE finalized_at
        /\ current_product' = IF r.marker THEN r.cells[1] ELSE current_product
        /\ current_specs' =
              IF r.marker THEN <<>>
              ELSE IF r.live /\ truthy(current_product) /\ r.pair # <<>>
                   THEN Append(current_specs, r.pair)
                   ELSE current_specs
        /\ UNCHANGED <<parse_pc, classify_vars, clean_vars, main_vars, stage_vars>>

\* End of input: the last block (lines 327-336)
ParseReturn ==
    LET emit == emit_ok(current_product, current_specs)
    IN  /\ parse_pc = "scan"
        /\ parse_pc' = "returned"
        /\ products' = IF emit
                       THEN Append(products, block(current_product, current_price, current_specs))
                       ELSE products
        /\ finalized_at' = IF emit THEN Append(finalized_at, Len(content))
                           ELSE finalized_at
        /\ opened' = FALSE
        /\ UNCHANGED <<content, current_product, current_specs, current_price,
                       classify_vars, clean_vars, main_vars, stage_vars>>

ParseNext == (\E k \in DOMAIN InputLines : ParseLine(k)) \/ ParseReturn

SpecParse == ParseInit /\ [][ParseNext]_vars

-----------------------------------------------------------------------------
(* Normalizer call with local fallback: process_with_gpt                   *)

entry(label, v) == [label |-> label, value |-> v]

\* The products main() works on: non-empty names and specification lists, as
\* the parser emits them.  The first two names keep the same characters in a
\* file name; the second value of the first product is a letter outside ASCII.
BatchProducts ==
  <<
    block(<<"A">>, None,
          << <<<<"M", "e", "m", "o", "r", "y">>, <<"8", " ", "G", "B">>>>, <<Other, <<"<EACUTE>">> >> >>),
    block(<<"A", "/">>, <<"9", "9", "9">>,
          << <<<<"P", "r", "o", "c", "e", "s", "s", "o", "r">>, <<"i", "7">> >> >>),
    block(<<"B", "-", "1">>, <<>>,
          << <<Other, <<"$">> >> >>)
  >>

\* The objects a reply of the model may hold once parsed: two values of one
\* label that differ in an explicit line break; a whitespace-only and an empty
\* value, the price sentinel and an upgrade option; an object with no keys.
GptRecords ==
  {
    record(<<"A">>, <<"9", "9", "9">>,
           << entry(<<"M", "e", "m", "o", "r", "y">>, <<"8", "\n", "G", "B">>),
              entry(<<"M", "e", "m", "o", "r", "y">>, <<"8", " ", "G", "B">>) >>,
           <<>>),
    record(<<"A">>, <<"N", "o", "n", "e">>,
           << entry(<<"D", "i", "s", "p", "l", "a", "y">>, <<" ">>),
              entry(Other, <<>>) >>,
           << [label |-> <<"R", "A", "M">>, value |-> <<"1", "6", "\n", "G", "B">>,
               price |-> <<"5", "0">>] >>),
    EmptyObject
  }

\* The replies of the API: texts of braces and other characters ("w")
GptReplies == UNION {[1..n -> {"{", "}", "w"}] : n \in 0..MaxReply}

\* content.find('{')
find(s, c) ==
    IF \E k \in DOMAIN s : s[k] = c
    THEN (CHOOSE k \in DOMAIN s : s[k] = c /\ \A j \in 1..(k - 1) : s[j] # c) - 1
    ELSE -1

\* content.rfind('}')
rfind(s, c) ==
    IF \E k \in DOMAIN s : s[k] = c
    THEN (CHOOSE k \in DOMAIN s : s[k] = c /\ \A j \in (k + 1)..Len(s) : s[j] # c) - 1
    ELSE -1

\* content[start_idx:end_idx]
slice(s, start_idx, end_idx) == SubSeq(s, start_idx + 1, end_idx)

\* lines 123-126: the text handed to json.loads, None when the else branch raises
json_str_of(reply) ==
    LET start_idx == find(reply, "{")
        end_idx   == rfind(reply, "}") + 1
    IN  IF start_idx # -1 /\ end_idx # -1
        THEN slice(reply, start_idx, end_idx)
        ELSE None

\* json.loads can return an object for a text that is one object {...}.  A
\* brace is a brace of the object, or a character of a string literal; the
\* quotes that open and close a literal are among the other characters ("w"),
\* so w may enter or leave a literal.  An opening brace outside a literal
\* needs a key before it unless it is the first character, and nothing may
\* follow the brace that closes the object.  in_string: inside a literal;
\* prev: the character before, "" at the start.
RECURSIVE depth_ok(_, _, _, _)
depth_ok(s, depth, in_string, prev) ==
    IF s = <<>> THEN FALSE
    ELSE LET c == Head(s)
         IN  IF c = "w"
             THEN depth > 0 /\ (\/ depth_ok(Tail(s), depth, in_string, c)
                                \/ depth_ok(Tail(s), depth, ~ in_string, c))
             ELSE IF in_string
             THEN depth_ok(Tail(s), depth, TRUE, c)
             ELSE IF c = "{"
             THEN prev \in {"", "w"} /\ depth_ok(Tail(s), depth + 1, FALSE, c)
             ELSE IF depth = 1
                  THEN Tail(s) = <<>>
                  ELSE depth > 1 /\ depth_ok(Tail(s), depth - 1, FALSE, c)

loadable(json_str) == json_str # None /\ depth_ok(json_str, 0, FALSE, "")

\* What the API call did: it raised, or it returned a reply, and json.loads of
\* the slice raised or returned an object
Responses ==
    {[called |-> TRUE, raised |-> TRUE, reply |-> <<>>, parsed |-> FALSE,
      loaded |-> Unassigned]}
    \cup {[called |-> TRUE, raised |-> FALSE, reply |-> r, parsed |-> FALSE,
           loaded |-> Unassigned] : r \in GptReplies}
    \cup {[called |-> TRUE, raised |-> FALSE, reply |-> r, parsed |-> TRUE,
           loaded |-> g] :
              r \in {q \in GptReplies : loadable(json_str_of(q))}, g \in GptRecords}

fallback_swapped(product) ==
    record(product.name, product.price,
           [k \in DOMAIN product.specifications |->
               entry(product.specifications[k][2], product.specifications[k][1])],
           <<>>)

\* lines 133-145: the basic structure
fallback(product) ==
    record(product.name, product.price,
           [k \in DOMAIN product.specifications |->
               entry(product.specifications[k][1], product.specifications[k][2])],
           <<>>)

\* lines 68-145
process_with_gpt(product, resp) ==
    IF resp.raised \/ ~ resp.parsed THEN fallback(product) ELSE resp.loaded

-----------------------------------------------------------------------------
(* Table Layout Engine: create_specification_table, both classes           *)

\* a length of x millimetres, in units of 1/100000 mm
mm(x) == x * 100000

\* self.w of an A4 page: 595.28 pt at 72 / 25.4 pt per mm, 210.00155 mm
A4Width == (59528 * 254 * 100) \div 72

Margins == 40

row_height == 8

TopMargin == 20

OverlayTop == 75

TitleHeight == 15

PriceHeight == 20

TitleGap == 5

UpgradeGap == 10

UpgradeTitleHeight == 10

\* processor_template.py line 63: the content-end marker, assigned and not read
max_y == 220

\* create_template.py: the header band is 0..70, the footer band starts at 257
HeaderBottom == 70

FooterTop == 257

\* self.w - 40, in units of 1/100000 mm
content_width == A4Width - mm(Margins)

\* content_width * 0.7, in units of 1/100000 mm: 119.00108 mm
value_width == (content_width * 7) \div 10

\* The widths get_string_width may return for a value, in whole millimetres:
\* short texts, and one text of several hundred characters
TextWidths == {k * WidthStep : k \in 0..MaxWidthSteps} \cup {LongWidth}

max(a, b) == IF a >= b THEN a ELSE b

current_row_height_wrapped_only(v, text_width) ==
    row_height * max(1, (mm(text_width) \div value_width) + 1)

\* lines 191-198 (72-79 in the overlay)
current_row_height(v, text_width) ==
    LET value_lines   == Len(split(v, "\n"))
        wrapped_lines == max(1, (mm(text_width) \div value_width) + 1)
        total_lines   == max(value_lines, wrapped_lines)
    IN  row_height * total_lines

\* line 173 (51): is the price drawn
price_shown(data) ==
    /\ "price" \in data.keys
    /\ data.price \notin {None, <<>>}
    /\ data.price \notin {<<"N", "o", "n", "e">>, <<>>, None}

\* lines 233-235: the text of an upgrade row, the price appended if there is one
upgrade_text(upgrade) ==
    IF upgrade.price \notin {None, <<>>}
    THEN upgrade.value \o <<" ", "-", " ", "$">> \o upgrade.price
    ELSE upgrade.value

\* lines 239-243: height of an upgrade row
upgrade_row_height(upgrade) ==
    LET lines == Len(split(upgrade_text(upgrade), "\n"))
    IN  max(row_height, row_height * lines)

Digits == {"0", "1", "2", "3", "4", "5", "6", "7", "8", "9"}

\* str.isalnum(), a letter outside ASCII included
isalnum(c) ==
    \/ \E k \in DOMAIN UpperCase : c = UpperCase[k] \/ c = LowerCase[k]
    \/ c \in Digits
    \/ c = "<EACUTE>"

\* line 382 (190)
safe_filename(name) == SelectSeq(name, LAMBDA x : isalnum(x) \/ x \in {" ", "-", "_"})

\* line 383 (191)
output_file(name) == safe_filename(name) \o <<"_", "s", "p", "e", "c", ".", "p", "d", "f">>

\* pdf.output / open(output_file, 'wb'): the file is created or replaced
write_file(dir, file, doc) ==
    {f \in dir : f.file # file} \cup {[file |-> file, doc |-> doc]}

\* lines 133-134: process_with_gpt logs the failure of the normalizer
gpt_except(records, i) ==
    Append(records, [at |-> "gpt", product |-> i])

\* lines 367-369 (175-177): main logs that there are no products
no_products(records) ==
    Append(records, [at |-> "empty", product |-> 0])

\* lines 352-354 (136-138): create_spec_pdf / create_templated_pdf logs the
\* error and raises it again
create_pdf_except(records, i) ==
    Append(records, [at |-> "create_pdf", product |-> i])

main_except_silent(records, i) == records

\* lines 389-390 (202-205): main logs the error and returns
main_except(records, i) ==
    Append(records, [at |-> "main", product |-> i])

MainInit ==
    /\ path \in {"plain", "overlay"}
    /\ batch = <<>>
    /\ product_i = 1
    /\ main_pc = "start"
    /\ response = NoResponse
    /\ structured_data = Unassigned
    /\ y = 0
    /\ row = 0
    /\ is_dark_row = TRUE
    /\ rects = <<>>
    /\ output_dir = {}
    /\ fell_back = {}
    /\ log = <<>>
    /\ written = <<>>
    /\ ParseIdle /\ ClassifyIdle /\ CleanIdle /\ StageIdle

\* lines 358-366 (146-174): the configuration file is read and parsed
ReadProducts ==
    /\ main_pc = "start"
    /\ \E n \in 0..MaxProducts :
          \E ids \in [1..n -> DOMAIN BatchProducts] :
              batch' = [k \in 1..n |-> BatchProducts[ids[k]]]
    /\ main_pc' = "normalize"
    /\ UNCHANGED <<path, product_i, response, structured_data, y, row, is_dark_row, rects,
                   output_dir, fell_back, log, written>>
    /\ UNCHANGED <<parse_vars, classify_vars, clean_vars, stage_vars>>

\* main raises before the loop over the products: the configuration file
\* cannot be opened (line 363; 159-160, 171), template.pdf is missing (150-151)
\* or the output directory cannot be made (168; line 372, after a non-empty
\* batch was parsed).  The handler of main logs the error, for no product,
\* and main returns (lines 389-390, 202-205).
StartError ==
    /\ \/ main_pc = "start"
       \/ main_pc = "normalize" /\ path = "plain" /\ product_i = 1 /\ batch # <<>>
    /\ log' = main_except(log, 0)
    /\ main_pc' = "aborted"
    /\ UNCHANGED <<path, batch, product_i, response, structured_data, y, row, is_dark_row,
                   rects, output_dir, fell_back, written>>
    /\ UNCHANGED <<parse_vars, classify_vars, clean_vars, stage_vars>>

\* lines 367-369 (175-177): parse_product_blocks returned no product; main
\* logs it and returns
NoProducts ==
    /\ main_pc = "normalize"
    /\ batch = <<>>
    /\ log' = no_products(log)
    /\ main_pc' = "empty"
    /\ UNCHANGED <<path, batch, product_i, response, structured_data, y, row, is_dark_row,
                   rects, output_dir, fell_back, written>>
    /\ UNCHANGED <<parse_vars, classify_vars, clean_vars, stage_vars>>

\* create_spec_pdf line 342 (create_templated_pdf line 108): process_with_gpt
Normalize(resp) ==
    /\ main_pc = "normalize"
    /\ batch # <<>>
    /\ response' = resp
    /\ structured_data' = process_with_gpt(batch[product_i], resp)
    /\ main_pc' = "title"
    /\ fell_back' = IF resp.raised \/ ~ resp.parsed
                    THEN fell_back \cup {product_i} ELSE fell_back
    /\ log' = IF resp.raised \/ ~ resp.parsed THEN gpt_except(log, product_i) ELSE log
    /\ UNCHANGED <<path, batch, product_i, y, row, is_dark_row, rects, output_dir,
                   written>>
    /\ UNCHANGED <<parse_vars, classify_vars, clean_vars, stage_vars>>

\* add_page and lines 157-182 (32-63): title, price, gap
BeginTable ==
    /\ main_pc = "title"
    /\ {"title", "main_specs"} \subseteq structured_data.keys
    /\ y' = (IF path = "plain" THEN TopMargin ELSE OverlayTop) + TitleHeight
            + (IF price_shown(structured_data) THEN PriceHeight ELSE 0) + TitleGap
    /\ row' = 1
    /\ is_dark_row' = TRUE
    /\ rects' = <<>>
    /\ response' = NoResponse
    /\ main_pc' = "rows"
    /\ UNCHANGED <<path, batch, product_i, structured_data, output_dir, fell_back, log,
                   written>>
    /\ UNCHANGED <<parse_vars, classify_vars, clean_vars, stage_vars>>

\* structured_data['title'] or structured_data['main_specs'] raises KeyError:
\* create_spec_pdf re-raises (lines 352-354), main logs and ends (lines 389-390)
RenderError ==
    /\ main_pc = "title"
    /\ ~ ({"title", "main_specs"} \subseteq structured_data.keys)
    /\ response' = NoResponse
    /\ log' = main_except(create_pdf_except(log, product_i), product_i)
    /\ main_pc' = "aborted"
    /\ UNCHANGED <<path, batch, product_i, structured_data, y, row, is_dark_row, rects,
                   output_dir, fell_back, written>>
    /\ UNCHANGED <<parse_vars, classify_vars, clean_vars, stage_vars>>

\* lines 184-221 (65-102): one iteration of the loop over main_specs
DrawRow ==
    /\ main_pc = "rows"
    /\ row <= Len(structured_data.main_specs)
    /\ LET spec == structured_data.main_specs[row]
       IN  IF ~ truthy(spec.value)
           THEN UNCHANGED <<y, is_dark_row, rects>>
           ELSE \E text_width \in TextWidths :
                   LET start_y == y
                       height  == current_row_height(spec.value, text_width)
                   IN  /\ rects' = Append(rects,
                                     [start_y    |-> start_y,
                                      height     |-> height,
                                      dark       |-> is_dark_row,
                                      label      |-> clean_text_for_pdf(spec.label),
                                      value      |-> clean_text_for_pdf(spec.value),
                                      raw        |-> spec.value,
                                      text_width |-> text_width])
                       /\ y' = start_y + height
                       /\ is_dark_row' = ~ is_dark_row
    /\ row' = row + 1
    /\ UNCHANGED <<path, batch, product_i, main_pc, response, structured_data, output_dir,
                   fell_back, log, written>>
    /\ UNCHANGED <<parse_vars, classify_vars, clean_vars, stage_vars>>

\* the loop over main_specs is over; lines 223-258: the upgrade options of the
\* plain path, every row at the cursor, the cursor moved by one line of text,
\* the shade set to dark and changed after every row
EndRows ==
    /\ main_pc = "rows"
    /\ row > Len(structured_data.main_specs)
    /\ LET ups == structured_data.upgrade_options
       IN  IF path = "plain" /\ ups # <<>>
           THEN /\ y' = y + UpgradeGap + UpgradeTitleHeight + TitleGap
                        + row_height * Len(ups)
                /\ rects' = rects \o
                      [k \in DOMAIN ups |->
                          [start_y    |-> y + UpgradeGap + UpgradeTitleHeight + TitleGap
                                            + row_height * (k - 1),
                           height     |-> upgrade_row_height(ups[k]),
                           dark       |-> (k % 2 = 1),
                           label      |-> clean_text_for_pdf(ups[k].label),
                           value      |-> clean_text_for_pdf(upgrade_text(ups[k])),
                           raw        |-> None,
                           text_width |-> 0]]
                /\ is_dark_row' = (Len(ups) % 2 = 0)
           ELSE UNCHANGED <<y, rects, is_dark_row>>
    /\ main_pc' = "write"
    /\ UNCHANGED <<path, batch, product_i, response, structured_data, row, output_dir,
                   fell_back, log, written>>
    /\ UNCHANGED <<parse_vars, classify_vars, clean_vars, stage_vars>>

\* lines 381-385 (189-196): the document is written and the page object is
\* dropped; the loop goes on
WriteDocument ==
    /\ main_pc = "write"
    /\ output_dir' = write_file(output_dir, output_file(batch[product_i].name), product_i)
    /\ IF product_i < Len(batch)
       THEN product_i' = product_i + 1 /\ main_pc' = "normalize"
       ELSE product_i' = product_i /\ main_pc' = "done"
    /\ structured_data' = Unassigned
    /\ y' = 0
    /\ row' = 0
    /\ is_dark_row' = TRUE
    /\ rects' = <<>>
    /\ written' = Append(written, product_i)
    /\ UNCHANGED <<path, batch, response, fell_back, log>>
    /\ UNCHANGED <<parse_vars, classify_vars, clean_vars, stage_vars>>

\* Saving the document of product i raises, at one of three steps: "stage",
\* inside create_templated_pdf (staging or merging, lines 116-132, logged and
\* re-raised at 136-138); "open", the output file cannot be created; "write",
\* the output file was created and writing into it failed, which leaves a
\* truncated file (doc 0: no document) under that name.  main logs the error
\* and ends (lines 389-390, 202-205).
WriteError ==
    /\ main_pc = "write"
    /\ \E step \in {"stage", "open", "write"} :
          /\ step = "stage" => path = "overlay"
          /\ output_dir' = IF step = "write"
                           THEN write_file(output_dir,
                                           output_file(batch[product_i].name), 0)
                           ELSE output_dir
          /\ log' = main_except(IF step = "stage"
                                THEN create_pdf_except(log, product_i)
                                ELSE log, product_i)
    /\ main_pc' = "aborted"
    /\ UNCHANGED <<path, batch, product_i, response, structured_data, y, row, is_dark_row,
                   rects, fell_back, written>>
    /\ UNCHANGED <<parse_vars, classify_vars, clean_vars, stage_vars>>

MainNext ==
    \/ ReadProducts
    \/ StartError
    \/ NoProducts
    \/ \E resp \in Responses : Normalize(resp)
    \/ BeginTable
    \/ RenderError
    \/ DrawRow
    \/ EndRows
    \/ WriteDocument
    \/ WriteError

SpecMain == MainInit /\ [][MainNext]_vars

-----------------------------------------------------------------------------
(* Staging and merging: create_templated_pdf, one call per task            *)

Tasks == 1..MaxTasks

\* the call has ended
exited(t) == task_pc[t] \in {"returned", "raised"}

\* main calls create_templated_pdf for one product after the other (line 187);
\* concurrent tasks take their steps in any order
may_step(t) ==
    mode = "concurrent" \/ \A u \in 1..(t - 1) : exited(u)

\* open(name, 'wb') by task t: the file is created, or cut to length 0
opened_file(file, t) ==
    [exists |-> TRUE, page |-> 0, writers |-> file.writers \cup {t}]

staged_file_first_task(file, t) ==
    IF t \in file.writers
    THEN [exists |-> TRUE, page |-> 1, writers |-> file.writers \ {t}]
    ELSE file

\* line 118, f.write and f.close by task t: the file holds the content page of
\* t, unless it was unlinked since t opened it
staged_file(file, t) ==
    IF t \in file.writers
    THEN [exists |-> TRUE, page |-> t, writers |-> file.writers \ {t}]
    ELSE file

\* how the call ends after the finally clause: return writer, or the
\* exception in flight
exit_pc(t) == IF error[t] = "none" THEN "returned" ELSE "raised"

\* a step of task t raises: the except clause logs and raises again (lines
\* 136-138), the finally clause is next
raise(t, step) ==
    /\ error' = [error EXCEPT ![t] = step]
    /\ failed_step' = [failed_step EXCEPT ![t] = step]
    /\ task_pc' = [task_pc EXCEPT ![t] = "finally"]

StageInit ==
    /\ mode \in {"sequential", "concurrent"}
    /\ task_pc = [t \in Tasks |-> "render"]
    /\ temp_content = [t \in Tasks |-> FALSE]
    /\ temp_file = NoFile
    /\ seen = [t \in Tasks |-> "unread"]
    /\ content_page = [t \in Tasks |-> 0]
    /\ writer = [t \in Tasks |-> 0]
    /\ error = [t \in Tasks |-> "none"]
    /\ failed_step = [t \in Tasks |-> "none"]
    /\ ParseIdle /\ ClassifyIdle /\ CleanIdle /\ MainIdle

\* lines 108-114: normalize and render the content page; the renderer raises
\* for a record without a title or without main_specs
Render(t) ==
    /\ task_pc[t] = "render" /\ may_step(t)
    /\ \E data \in {fallback(BatchProducts[1])} \cup GptRecords :
          IF {"title", "main_specs"} \subseteq data.keys
          THEN /\ task_pc' = [task_pc EXCEPT ![t] = "open"]
               /\ UNCHANGED <<error, failed_step>>
          ELSE raise(t, "render")
    /\ UNCHANGED <<mode, seen, temp_content, temp_file, content_page, writer>>
    /\ UNCHANGED <<parse_vars, classify_vars, clean_vars, main_vars>>

\* lines 117-118: temp_content is bound; content_pdf.output opens the file
StageOpen(t) ==
    /\ task_pc[t] = "open" /\ may_step(t)
    /\ temp_content' = [temp_content EXCEPT ![t] = TRUE]
    /\ \/ /\ temp_file' = opened_file(temp_file, t)
          /\ task_pc' = [task_pc EXCEPT ![t] = "write"]
          /\ UNCHANGED <<error, failed_step>>
       \/ /\ raise(t, "open")
          /\ UNCHANGED temp_file
    /\ UNCHANGED <<mode, seen, content_page, writer>>
    /\ UNCHANGED <<parse_vars, classify_vars, clean_vars, main_vars>>

\* line 118: content_pdf.output writes the page and closes the file
StageWrite(t) ==
    /\ task_pc[t] = "write" /\ may_step(t)
    /\ \/ /\ temp_file' = staged_file(temp_file, t)
          /\ task_pc' = [task_pc EXCEPT ![t] = "template"]
          /\ UNCHANGED <<error, failed_step>>
       \/ /\ raise(t, "write")
          /\ temp_file' = [temp_file EXCEPT !.writers = @ \ {t}]
    /\ UNCHANGED <<mode, seen, temp_content, content_page, writer>>
    /\ UNCHANGED <<parse_vars, classify_vars, clean_vars, main_vars>>

\* line 121: PdfReader(template_path)
ReadTemplate(t) ==
    /\ task_pc[t] = "template" /\ may_step(t)
    /\ \/ /\ task_pc' = [task_pc EXCEPT ![t] = "content"]
          /\ UNCHANGED <<error, failed_step>>
       \/ raise(t, "template")
    /\ UNCHANGED <<mode, seen, temp_content, temp_file, content_page, writer>>
    /\ UNCHANGED <<parse_vars, classify_vars, clean_vars, main_vars>>

\* what PdfReader finds under the name of the staging file
found(file) ==
    IF ~ file.exists THEN "missing" ELSE IF file.page = 0 THEN "empty" ELSE "staged"

\* line 122: PdfReader(str(temp_content)) reads the file as it is now; it
\* raises when the file is not there or holds no page, and it may raise on a
\* staged file too
ReadContent(t) ==
    /\ task_pc[t] = "content" /\ may_step(t)
    /\ seen' = [seen EXCEPT ![t] = found(temp_file)]
    /\ \/ /\ found(temp_file) = "staged"
          /\ content_page' = [content_page EXCEPT ![t] = temp_file.page]
          /\ task_pc' = [task_pc EXCEPT ![t] = "merge"]
          /\ UNCHANGED <<error, failed_step>>
       \/ /\ raise(t, "content")
          /\ UNCHANGED content_page
    /\ UNCHANGED <<mode, temp_content, temp_file, writer>>
    /\ UNCHANGED <<parse_vars, classify_vars, clean_vars, main_vars>>

\* lines 124-134: the first pages are merged and the writer is returned
Merge(t) ==
    /\ task_pc[t] = "merge" /\ may_step(t)
    /\ \/ /\ writer' = [writer EXCEPT ![t] = content_page[t]]
          /\ task_pc' = [task_pc EXCEPT ![t] = "finally"]
          /\ UNCHANGED <<error, failed_step>>
       \/ /\ raise(t, "merge")
          /\ UNCHANGED writer
    /\ UNCHANGED <<mode, seen, temp_content, temp_file, content_page>>
    /\ UNCHANGED <<parse_vars, classify_vars, clean_vars, main_vars>>

\* line 141: temp_content.exists(); the name is unbound when the call failed
\* before line 117, and reading it raises UnboundLocalError, which replaces
\* the exception in flight
FinallyExists(t) ==
    /\ task_pc[t] = "finally" /\ may_step(t)
    /\ IF ~ temp_content[t]
       THEN /\ error' = [error EXCEPT ![t] = "UnboundLocalError"]
            /\ task_pc' = [task_pc EXCEPT ![t] = "raised"]
       ELSE /\ task_pc' = [task_pc EXCEPT ![t] =
                              IF temp_file.exists THEN "unlink" ELSE exit_pc(t)]
            /\ UNCHANGED error
    /\ UNCHANGED <<mode, seen, temp_content, temp_file, content_page, writer, failed_step>>
    /\ UNCHANGED <<parse_vars, classify_vars, clean_vars, main_vars>>

\* line 142: temp_content.unlink(); it raises FileNotFoundError when the file
\* is gone by now, and the writer is not returned then
FinallyUnlink(t) ==
    /\ task_pc[t] = "unlink" /\ may_step(t)
    /\ IF temp_file.exists
       THEN /\ temp_file' = NoFile
            /\ task_pc' = [task_pc EXCEPT ![t] = exit_pc(t)]
            /\ UNCHANGED <<error, failed_step, writer>>
       ELSE /\ error' = [error EXCEPT ![t] = "unlink"]
            /\ failed_step' = [failed_step EXCEPT ![t] =
                                  IF @ = "none" THEN "unlink" ELSE @]
            /\ writer' = [writer EXCEPT ![t] = 0]
            /\ task_pc' = [task_pc EXCEPT ![t] = "raised"]
            /\ UNCHANGED temp_file
    /\ UNCHANGED <<mode, seen, temp_content, content_page>>
    /\ UNCHANGED <<parse_vars, classify_vars, clean_vars, main_vars>>

StageNext ==
    \E t \in Tasks :
        \/ Render(t)
        \/ StageOpen(t)
        \/ StageWrite(t)
        \/ ReadTemplate(t)
        \/ ReadContent(t)
        \/ Merge(t)
        \/ FinallyExists(t)
        \/ FinallyUnlink(t)

SpecStage == StageInit /\ [][StageNext]_vars

-----------------------------------------------------------------------------
(* Claims about the Table Parser, checked under SpecParse                  *)

ModelXBaseConfiguration == <<"M", "o", "d", "e", "l", " ", "X", " ", "B", "a", "s", "e", " ", "C", "o", "n", "f", "i", "g", "u", "r", "a", "t", "i", "o", "n">>

ScenarioA == <<1, 2, 3>>

row_at(i) == Scanned[content[i]]

names_of(blocks) == [i \in DOMAIN blocks |-> blocks[i].name]

\* C1: on the three rows of Scenario A the parser returns exactly one product,
\* named 'Model X Base Configuration', priced '999', with exactly one
\* specification pair, classified 'Processor'.
C1_ScenarioA_OneSpecification ==
    (parse_pc = "returned" /\ content = ScenarioA) =>
        /\ Len(products) = 1
        /\ products[1].name = ModelXBaseConfiguration
        /\ products[1].price = <<"9", "9", "9">>
        /\ Len(products[1].specifications) = 1
        /\ products[1].specifications[1][1] = spec_labels[1].label

\* The markers of the input whose block holds a specification row before the
\* next marker (or the end of the input), in input order
RECURSIVE complete_markers(_)
complete_markers(i) ==
    IF i > Len(content) THEN <<>>
    ELSE LET later == {n \in (i + 1)..Len(content) : row_at(n).marker}
             stop  == IF later = {} THEN Len(content) + 1
                      ELSE CHOOSE n \in later : \A o \in later : n <= o
         IN  IF /\ row_at(i).marker
                /\ \E j \in (i + 1)..(stop - 1) : row_at(j).pair # <<>>
             THEN <<row_at(i).cells[1]>> \o complete_markers(i + 1)
             ELSE complete_markers(i + 1)

\* C2: every emitted block has a non-empty name and at least one
\* specification pair; the blocks returned are, in input order, exactly those
\* of the marker rows that are followed by a specification row before the next
\* marker row or the end of the input.
C2_EmittedBlocksAreComplete ==
    /\ \A i \in DOMAIN products :
          /\ products[i].name # None
          /\ Len(products[i].name) >= 1
          /\ Len(products[i].specifications) >= 1
    /\ parse_pc = "returned" => names_of(products) = complete_markers(1)

\* C2 witness: a marker row directly followed by a marker row, a block emitted
\* before the pair and a block emitted after it
C2_Witness ==
    /\ parse_pc = "returned"
    /\ Len(products) = 2
    /\ \E i \in 2..(Len(content) - 2) :
          /\ row_at(i).marker /\ row_at(i + 1).marker
          /\ finalized_at[1] = i
          /\ finalized_at[2] = Len(content)

basephrase_lower == <<"b", "a", "s", "e", " ", "c", "o", "n", "f", "i", "g", "u", "r", "a", "t", "i", "o", "n">>

\* C3 as stated: the row processed last opened a block exactly when its first
\* cell is not 'NaN' and its line holds 'base configuration' in any letter case.
C3_AnyLetterCase ==
    (parse_pc = "scan" /\ content # <<>> /\ row_at(Len(content)).live) =>
        LET r == row_at(Len(content))
        IN  opened <=> (r.cells[1] # NaN /\ contains(lower(r.line), basephrase_lower))

\* C3 amended: the row processed last opened a block exactly when it is a table
\* row whose first cell is not 'NaN' and whose line holds 'Base Configuration'
\* or 'Base configuration', spelled so; a block that was opened is named by the
\* first cell and has no specifications yet.
C3_TwoSpellings ==
    (parse_pc = "scan" /\ content # <<>>) =>
        LET r == row_at(Len(content))
            l == InputLines[content[Len(content)]]
            spelled == \E i \in 1..(Len(l) - 17) :
                          \/ SubSeq(l, i, i + 17) = BaseConfiguration
                          \/ SubSeq(l, i, i + 17) = Baseconfiguration
        IN  /\ opened <=> (r.live /\ r.cells[1] # NaN /\ spelled)
            /\ opened => (current_product = r.cells[1] /\ current_specs = <<>>)

\* C3 witness: 'Base configuration' opened a block and the row spelled
\* 'base configuration' after it did not: it was appended as a pair
C3_Witness ==
    /\ parse_pc = "scan"
    /\ content = <<4, 5>>
    /\ ~ opened
    /\ current_product = row_at(1).cells[1]
    /\ Len(current_specs) = 1

\* The price of the last price row among the first n lines read, None if none
RECURSIVE last_price(_)
last_price(n) ==
    IF n = 0 THEN None
    ELSE LET r == row_at(n)
         IN  IF r.live /\ \E c \in DOMAIN r.cells : Head(r.cells[c]) = "$"
             THEN LET first == CHOOSE c \in DOMAIN r.cells :
                                  /\ Head(r.cells[c]) = "$"
                                  /\ \A d \in 1..(c - 1) : Head(r.cells[d]) # "$"
                  IN  SelectSeq(r.cells[first], LAMBDA ch : ch \notin {"$", ","})
             ELSE last_price(n - 1)

\* C10: the running price is the price of the last price row read so far,
\* whatever blocks were opened or emitted meanwhile, and the price of every
\* emitted block is the running price at the moment the block was finalized.
C10_RunningPriceCarries ==
    /\ current_price = last_price(Len(content))
    /\ \A i \in DOMAIN products : products[i].price = last_price(finalized_at[i])

\* C10 witness: two blocks emitted, the only price row in the first block, and
\* the second block carries the first block's price
C10_Witness ==
    /\ parse_pc = "returned"
    /\ Len(products) = 2
    /\ products[1].price # None
    /\ products[2].price = products[1].price
    /\ \A j \in (finalized_at[1])..Len(content) : row_at(j).price_cell = None

\* C10 witness of the other case: a price row before the first marker
\* priced the first block
C10_WitnessEarlyPrice ==
    /\ parse_pc = "returned"
    /\ Len(products) = 1
    /\ products[1].price # None
    /\ row_at(1).price_cell # None
    /\ \A j \in 2..Len(content) : row_at(j).price_cell = None

-----------------------------------------------------------------------------
(* Claims about the Spec Classifier, checked under SpecClassify            *)

labels == {spec_labels[k].label : k \in DOMAIN spec_labels}

\* some keyword of category k is a substring of the lower-cased value
has_keyword(v, k) ==
    LET low == lower(v)
    IN  \E j \in DOMAIN spec_labels[k].keywords :
            LET kw == spec_labels[k].keywords[j]
            IN  \E i \in 1..(Len(low) - Len(kw) + 1) :
                    \A n \in 1..Len(kw) : low[i + n - 1] = kw[n]

\* C4: determine_spec_type returns the first category, in table order, one of
\* whose keywords is a substring of the lower-cased value, and 'Other' when no
\* category has one; the result is one of the nine categories or 'Other',
\* never empty, and a value with a Memory and a Warranty keyword and no
\* Processor keyword is 'Memory'.
C4_FirstMatchingCategory ==
    spec_type # None =>
        /\ spec_type \in labels \cup {Other}
        /\ spec_type # <<>>
        /\ (spec_type = Other) <=> (\A k \in DOMAIN spec_labels : ~ has_keyword(value, k))
        /\ \A k \in DOMAIN spec_labels :
              spec_type = spec_labels[k].label =>
                  /\ has_keyword(value, k)
                  /\ \A j \in 1..(k - 1) : ~ has_keyword(value, j)
        /\ (has_keyword(value, 2) /\ has_keyword(value, 9) /\ ~ has_keyword(value, 1))
              => spec_type = spec_labels[2].label

\* C4 witness: an upper-case Memory keyword and a Warranty keyword, no
\* Processor keyword, classified 'Memory'
C4_Witness ==
    /\ spec_type = spec_labels[2].label
    /\ has_keyword(value, 2) /\ has_keyword(value, 9) /\ ~ has_keyword(value, 1)
    /\ value # lower(value)

-----------------------------------------------------------------------------
(* Claims about text sanitization, checked under SpecClean                 *)

\* C8: clean_text_for_pdf applied to its own result returns that result; the
\* result holds only ASCII characters, neither starts nor ends with
\* whitespace and has no two adjacent whitespace characters.
C8_CleanIsIdempotent ==
    /\ cleaned_again # None => cleaned_again = cleaned_text
    /\ cleaned_text # None =>
          /\ \A i \in DOMAIN cleaned_text : cleaned_text[i] \notin NonAscii
          /\ cleaned_text # <<>> =>
                /\ cleaned_text[1] \notin Whitespace
                /\ cleaned_text[Len(cleaned_text)] \notin Whitespace
          /\ \A i \in 1..(Len(cleaned_text) - 1) :
                ~ (cleaned_text[i] \in Whitespace /\ cleaned_text[i + 1] \in Whitespace)

\* C8 witness: a text with a character outside ASCII and a run of whitespace,
\* cleaned twice, the result not empty
C8_Witness ==
    /\ cleaned_again # None
    /\ cleaned_text # <<>>
    /\ \E i \in DOMAIN text : text[i] \in NonAscii
    /\ \E i \in 1..(Len(text) - 1) : text[i] \in Whitespace /\ text[i + 1] \in Whitespace

-----------------------------------------------------------------------------
(* Claims about the normalizer fallback, the batch loop and the layout,    *)
(* checked under SpecMain                                                  *)

\* C5: when the normalizer call fails (the API call raises, the reply holds no
\* JSON object, or its JSON does not parse), process_with_gpt returns a record
\* with the product's name as title, the product's price, one label/value
\* entry per raw pair in order with the raw category as label, and no upgrade
\* options; rendering of that product goes on.
C5_FallbackOnNormalizerFailure ==
    (main_pc = "title" /\ response.called /\ (response.raised \/ ~ response.parsed)) =>
        LET p == batch[product_i]
        IN  /\ structured_data.keys = {"title", "price", "main_specs", "upgrade_options"}
            /\ structured_data.title = p.name
            /\ structured_data.price = p.price
            /\ Len(structured_data.main_specs) = Len(p.specifications)
            /\ \A k \in DOMAIN p.specifications :
                  /\ structured_data.main_specs[k].label = p.specifications[k][1]
                  /\ structured_data.main_specs[k].value = p.specifications[k][2]
            /\ structured_data.upgrade_options = <<>>
            /\ ENABLED BeginTable
            /\ ~ ENABLED RenderError

\* C5 witness: the call failed for the first product, its document was written,
\* and the call for the second product, which has two raw pairs, returned a
\* reply whose JSON did not parse: two main_specs entries
C5_Witness ==
    /\ main_pc = "title"
    /\ product_i = 2
    /\ fell_back = {1, 2}
    /\ ~ response.raised /\ ~ response.parsed
    /\ \E k \in DOMAIN response.reply : response.reply[k] = "{"
    /\ Len(batch[2].specifications) = 2
    /\ Len(structured_data.main_specs) = 2
    /\ \E f \in output_dir : f.doc = 1

\* C6: after a run in which nothing failed, the output directory holds one
\* document for each product, each under its sanitized name, none replaced by
\* the document of another product.
C6_OneDocumentPerProduct ==
    main_pc = "done" =>
        /\ Cardinality(output_dir) = Len(batch)
        /\ \A k \in DOMAIN batch :
              [file |-> output_file(batch[k].name), doc |-> k] \in output_dir

explicit_pieces(v) == 1 + Cardinality({k \in DOMAIN v : v[k] = "\n"})

wrapped_estimate(text_width) ==
    CHOOSE n \in 1..(text_width + 1) :
        (n - 1) * value_width <= mm(text_width) /\ mm(text_width) < n * value_width

\* the main-spec rows among the rows drawn
spec_rows == {k \in DOMAIN rects : rects[k].raw # None}

\* C7: the height of every main-spec row drawn is 8 * max(E, W), E the number
\* of pieces of the value between explicit line breaks, W = max(1,
\* floor(text_width / value_width) + 1): a positive multiple of 8, not smaller
\* for more line breaks at the same width, and 24 for W = 3 and E = 2.
C7_RowHeight ==
    \A k \in spec_rows :
        LET e == explicit_pieces(rects[k].raw)
            w == wrapped_estimate(rects[k].text_width)
        IN  /\ rects[k].height = 8 * (IF e >= w THEN e ELSE w)
            /\ rects[k].height > 0
            /\ rects[k].height % 8 = 0
            /\ (w = 3 /\ e = 2) => rects[k].height = 24
            /\ \A j \in spec_rows :
                  (/\ rects[j].text_width = rects[k].text_width
                   /\ explicit_pieces(rects[j].raw) <= e)
                      => rects[j].height <= rects[k].height

\* C7 witness: a value with one explicit line break whose width needs three
\* wrapped lines, drawn 24 high, after a row of two lines
C7_Witness ==
    \E k \in spec_rows :
        /\ explicit_pieces(rects[k].raw) = 2
        /\ wrapped_estimate(rects[k].text_width) = 3
        /\ rects[k].height = 24

\* C9: every main-spec row drawn has a value that is not empty after
\* sanitization.
C9_NoRowForEmptyCleanedValue ==
    \A k \in spec_rows : clean_text_for_pdf(rects[k].raw) # <<>>

\* the records main's own handler wrote to the log
top_level_records == SelectSeq(log, LAMBDA r : r.at = "main")

\* C11: products are worked on in parsed order, and the first error raised
\* while rendering or saving product i ends the batch: the documents of
\* products 1..i-1 were saved, in that order, no file holds a document of
\* product i or of a later product, main's handler logged the error once, as
\* the last record, and main returned: no step of the batch is left to take.
\* An error raised before the loop (record of product 0) ends the run the
\* same way with nothing saved.
C11_AbortOnFirstError ==
    main_pc # "idle" =>
        /\ \A k \in DOMAIN written : written[k] = k
        /\ Len(written) = (IF main_pc = "done" THEN Len(batch) ELSE product_i - 1)
        /\ main_pc = "aborted" =>
              /\ written = [k \in 1..(product_i - 1) |-> k]
              /\ \A f \in output_dir : f.doc < product_i
              /\ Len(top_level_records) = 1
              /\ log[Len(log)] \in {[at |-> "main", product |-> product_i],
                                    [at |-> "main", product |-> 0]}
              /\ log[Len(log)].product = 0 => written = <<>> /\ output_dir = {}
              /\ ~ ENABLED MainNext
        /\ main_pc # "aborted" => top_level_records = <<>>

\* C11 witness: the second of two products fails after the first was saved
C11_Witness ==
    /\ main_pc = "aborted"
    /\ product_i = 2
    /\ Len(batch) = 2
    /\ written = <<1>>
    /\ \E f \in output_dir : f.doc = 1

-----------------------------------------------------------------------------
(* Claims about create_templated_pdf, checked under SpecStage              *)

\* the calls that have opened the staging file and have not ended
staging == {t \in Tasks :
               task_pc[t] \in {"write", "template", "content", "merge", "finally",
                               "unlink"}}

\* C12: with one call of create_templated_pdf at a time, the staging file
\* exists only while a call is between staging and its exit, so it does not
\* exist after any exit; a call that raises raises the error of the step that
\* failed, and a call that returns returns a writer with a merged page.
C12_StagingFileReleased ==
    mode = "sequential" =>
        /\ temp_file.exists => staging # {}
        /\ \A t \in Tasks :
              /\ task_pc[t] = "raised" => error[t] = failed_step[t]
              /\ task_pc[t] = "returned" => error[t] = "none" /\ writer[t] # 0

\* C13: run one after the other, every call reads and merges the content
\* page it staged itself and never misses the staged file; a call that merged
\* the page of another call, or missed the file, ran concurrently with it.
C13_SequentialMergesOwnPage ==
    \A t \in Tasks :
        /\ mode = "sequential" =>
              /\ content_page[t] \in {0, t}
              /\ writer[t] \in {0, t}
              /\ task_pc[t] = "returned" => writer[t] = t
              /\ seen[t] \in {"unread", "staged"}
              /\ failed_step[t] # "unlink"
        /\ (\/ writer[t] \notin {0, t}
            \/ seen[t] \in {"missing", "empty"}
            \/ failed_step[t] = "unlink") => mode = "concurrent"

\* C13 witness: of two concurrent calls, one returned a writer holding the
\* page the other one staged and deleted the file; the other one then found
\* the file gone when it tried to read it
C13_Witness ==
    /\ mode = "concurrent"
    /\ \E t, u \in Tasks :
          /\ t # u
          /\ task_pc[t] = "returned" /\ writer[t] = u
          /\ task_pc[u] = "raised" /\ failed_step[u] = "content" /\ seen[u] = "missing"
          /\ ~ temp_file.exists

-----------------------------------------------------------------------------
(* Claims about the overlay layout, checked under SpecMain                 *)

\* where the first row of the overlay path can start at the earliest: the
\* title starts at OverlayTop
first_row_y == OverlayTop + TitleHeight + TitleGap

\* C14: in the overlay path everything is laid out inside the content band:
\* the title starts at 75, below the header band that ends at 70, so rows
\* start at 95 or lower; each row starts where the one before it ended or
\* lower, and the cursor is at the end of the last row; the bottom edge of
\* every row is at most the content-end marker 220, above the footer at 257.
C14_RowsInsideContentBand ==
    (path = "overlay" /\ main_pc \in {"rows", "write"}) =>
        /\ OverlayTop > HeaderBottom
        /\ y >= first_row_y
        /\ \A k \in DOMAIN rects :
              /\ rects[k].start_y >= first_row_y
              /\ k > 1 => rects[k].start_y >= rects[k - 1].start_y + rects[k - 1].height
              /\ y >= rects[k].start_y + rects[k].height
              /\ rects[k].start_y + rects[k].height <= max_y
              /\ rects[k].start_y + rects[k].height < FooterTop

=============================================================================
